---------------------------- MODULE Spec2Model ----------------------------
(***************************************************************************)
(* A model of configor (src/configor.go): file resolution                  *)
(* (getConfigurations), the loader (Load, load), Save, and the binding     *)
(* engine processTags, which walks a configuration record by reflection,   *)
(* overrides fields from the process environment, applies defaults, checks *)
(* required fields and recurses into nested records and sequences.         *)
(*                                                                         *)
(* The configuration type the model binds is                               *)
(*                                                                         *)
(*   type Config struct {                                                  *)
(*       Port    int       `default:"5"`                                   *)
(*       Name    int       `required:"true"`                               *)
(*       Both    int       `env:"BOTH" default:"7" required:"true"`        *)
(*       DB      DB        `required:"true"`                               *)
(*       Servers []Server                                                  *)
(*       Ptrs    []*Server                                                 *)
(*       Opt     *Server                                                   *)
(*   }                                                                     *)
(*   type DB     struct { Port int; Mid Mid }                              *)
(*   type Mid    struct { Inner Inner; After int }                         *)
(*   type Inner  struct { Leaf int }                                       *)
(*   type Server struct { Host int `required:"true"`                       *)
(*                        Port int `default:"5"` }                         *)
(***************************************************************************)
EXTENDS Integers, Sequences, FiniteSets, TLC

VARIABLES
    phase,      \* where the running call is: see the actions
    cfg,        \* the configuration object (the value `config` points to)
    cfg0,       \* history: the object as it was when processTags was called
    obj,        \* the object the caller passed to Save / to Load
    stack,      \* the processTags activations, outermost first
    heap,       \* backing arrays of the []string prefix slices
    env,        \* the part of the process environment read so far
    envOpen,    \* whether field variables may be set in the environment
    lookups,    \* history: every os.Getenv of a field's variable
    err,        \* the error the call returned, NoErr while there is none
    refs,       \* Load's arguments: the base file references
    fs,         \* the file system: path -> document, for the regular files
    ri,         \* getConfigurations' loop index i
    results,    \* getConfigurations' results
    mi,         \* Load's position in the resolved list
    mergedLog,  \* history: the files load() has read, in order
    envname     \* getConfigurations' env, the result of ENV()

vars == <<phase, cfg, cfg0, obj, stack, heap, env, envOpen, lookups, err,
          refs, fs, ri, results, mi, mergedLog, envname>>

\* what getConfigurations, load and Save work on
loaderVars == <<refs, fs, ri, results, mi, mergedLog, envname>>

(***************************************************************************)
(* Bounds of the model.                                                    *)
(***************************************************************************)
MaxLen == 2        \* longest sequence a file puts into Servers
MaxEnvSet == 2     \* most environment variables that hold a value

(***************************************************************************)
(* reflect: types, field descriptors (struct tags), values.                *)
(***************************************************************************)
IntT == [kind |-> "int", name |-> "int"]
StructT(n) == [kind |-> "struct", name |-> n]
PtrT(n) == [kind |-> "ptr", name |-> n]          \* *n, n a struct
SliceT(n) == [kind |-> "slice", name |-> n]      \* []n, n a struct
PtrSliceT(n) == [kind |-> "ptrslice", name |-> n] \* []*n, n a struct

Tag(name, envTag, defaultTag, requiredTag, typ) ==
    [name |-> name, env |-> envTag, default |-> defaultTag,
     required |-> requiredTag, typ |-> typ]

\* configType.Field(i) for i = 1..NumField, for each record type
Fields(structName) ==
    CASE structName = "Config" ->
            << Tag("Port", "", "5", "", IntT),
               Tag("Name", "", "", "true", IntT),
               Tag("Both", "BOTH", "7", "true", IntT),
               Tag("DB", "", "", "true", StructT("DB")),
               Tag("Servers", "", "", "", SliceT("Server")),
               Tag("Ptrs", "", "", "", PtrSliceT("Server")),
               Tag("Opt", "", "", "", PtrT("Server")) >>
      [] structName = "DB" ->
            << Tag("Port", "", "", "", IntT),
               Tag("Mid", "", "", "", StructT("Mid")) >>
      [] structName = "Mid" ->
            << Tag("Inner", "", "", "", StructT("Inner")),
               Tag("After", "", "", "", IntT) >>
      [] structName = "Inner" ->
            << Tag("Leaf", "", "", "", IntT) >>
      [] structName = "Server" ->
            << Tag("Host", "", "", "true", IntT),
               Tag("Port", "", "5", "", IntT) >>

NumField(t) == Len(Fields(t.name))

\* the type of an element of a sequence type, of the pointee of a pointer
ElemType(t) ==
    CASE t.kind = "slice" -> StructT(t.name)
      [] t.kind = "ptrslice" -> PtrT(t.name)
      [] t.kind = "ptr" -> StructT(t.name)

(***************************************************************************)
(* Values: an int is a number; a record is the sequence of its fields'     *)
(* values; a pointer is <<>> (nil) or <<v>>; a sequence is the sequence of *)
(* its elements (<<>> is the nil slice).                                   *)
(***************************************************************************)
RECURSIVE Zero(_)
Zero(t) ==
    CASE t.kind = "int" -> 0
      [] t.kind = "struct" ->
            [k \in 1..NumField(t) |-> Zero(Fields(t.name)[k].typ)]
      [] OTHER -> <<>>

\* reflect.DeepEqual(field.Interface(), reflect.Zero(field.Type()).Interface())
isBlank(v, t) == v = Zero(t)

RECURSIVE Get(_, _)
Get(v, p) == IF p = <<>> THEN v ELSE Get(v[Head(p)], Tail(p))

RECURSIVE Put(_, _, _)
Put(v, p, x) ==
    IF p = <<>> THEN x
    ELSE [v EXCEPT ![Head(p)] = Put(v[Head(p)], Tail(p), x)]


(***************************************************************************)
(* []string slices.  A slice is a header (arr, len, cap) over a backing    *)
(* array of the heap; arr = 0 is the nil slice.  append writes in place    *)
(* when the capacity allows it and otherwise copies into a fresh array     *)
(* whose capacity the runtime's growslice picks (string elements, small    *)
(* capacities: no size-class rounding).                                    *)
(***************************************************************************)
NilSlice == [arr |-> 0, len |-> 0, cap |-> 0]

growslice(oldCap, needed) ==
    IF needed > 2 * oldCap THEN needed ELSE 2 * oldCap

SliceElems(h, s) == [k \in 1..s.len |-> h[s.arr][k]]

\* append(s, xs...): the new heap and the slice returned
GoAppend(h, s, xs) ==
    LET n == s.len + Len(xs)
    IN  IF n <= s.cap
        THEN [heap |-> [h EXCEPT ![s.arr] =
                          [k \in 1..s.cap |->
                             IF k > s.len /\ k <= n
                             THEN xs[k - s.len] ELSE @[k]]],
              slice |-> [arr |-> s.arr, len |-> n, cap |-> s.cap]]
        ELSE LET c == growslice(s.cap, n)
             IN  [heap |-> Append(h,
                             [k \in 1..c |->
                                IF k <= s.len THEN h[s.arr][k]
                                ELSE IF k <= n THEN xs[k - s.len]
                                ELSE ""]),
                  slice |-> [arr |-> Len(h) + 1, len |-> n, cap |-> c]]

(***************************************************************************)
(* strings.Join, strings.ToUpper, fmt.Sprintf("%d", i).  ToUpper is        *)
(* applied segment by segment: the separator "_" has no upper case.        *)
(***************************************************************************)
RECURSIVE Join(_, _)
Join(segs, sep) ==
    IF segs = <<>> THEN ""
    ELSE IF Len(segs) = 1 THEN segs[1]
    ELSE segs[1] \o sep \o Join(Tail(segs), sep)

ToUpper(s) ==
    CASE s = "configor" -> "CONFIGOR"
      [] s = "app" -> "APP"
      [] s = "Port" -> "PORT"
      [] s = "Name" -> "NAME"
      [] s = "Both" -> "BOTH"
      [] s = "DB" -> "DB"
      [] s = "Servers" -> "SERVERS"
      [] s = "Ptrs" -> "PTRS"
      [] s = "Opt" -> "OPT"
      [] s = "Mid" -> "MID"
      [] s = "Inner" -> "INNER"
      [] s = "After" -> "AFTER"
      [] s = "Leaf" -> "LEAF"
      [] s = "Host" -> "HOST"
      [] OTHER -> s           \* digits, "_" and the empty string

\* strings.ToUpper(strings.Join(segs, "_"))
UpperJoin(segs) == Join([k \in 1..Len(segs) |-> ToUpper(segs[k])], "_")

\* fmt.Sprintf("%d", i)
Sprintf(i) == ToString(i)

(***************************************************************************)
(* The codecs (yaml.v2, encoding/json, BurntSushi/toml) on the documents   *)
(* of the model.  A document is a tree of nodes: a scalar with its         *)
(* literal, null, a mapping (key/node items) or a sequence.  Marshal       *)
(* writes every field of a record under its key (yaml: the lower-cased     *)
(* field name; json: the field name), an int in decimal, a nil pointer as  *)
(* null.  Decoding matches keys to fields (yaml: the lower-cased name;     *)
(* json and toml: ignoring case), leaves a field without a key as it is,   *)
(* and fails on a node of the wrong shape.  A sequence node makes a new    *)
(* sequence (no file of the model is decoded over a non-empty sequence).   *)
(***************************************************************************)
Scalar(lit) == [k |-> "scalar", lit |-> lit, items |-> <<>>]

Null == [k |-> "null", lit |-> "", items |-> <<>>]

MapNode(items) == [k |-> "map", lit |-> "", items |-> items]

SeqNode(items) == [k |-> "seq", lit |-> "", items |-> items]

ToLower(s) ==
    CASE s \in {"Port", "port"} -> "port"
      [] s \in {"Name", "name"} -> "name"
      [] s \in {"Both", "both"} -> "both"
      [] s \in {"DB", "db"} -> "db"
      [] s \in {"Servers", "servers"} -> "servers"
      [] s \in {"Ptrs", "ptrs"} -> "ptrs"
      [] s \in {"Opt", "opt"} -> "opt"
      [] s \in {"Mid", "mid"} -> "mid"
      [] s \in {"Inner", "inner"} -> "inner"
      [] s \in {"After", "after"} -> "after"
      [] s \in {"Leaf", "leaf"} -> "leaf"
      [] s \in {"Host", "host"} -> "host"
      [] OTHER -> s

KeyOf(name, fmt) == IF fmt = "yaml" THEN ToLower(name) ELSE name

KeyMatches(key, name, fmt) ==
    IF fmt = "yaml" THEN key = ToLower(name) ELSE ToLower(key) = ToLower(name)

IsDecimal(lit) == lit \in {"0", "3", "5", "7"}

Atoi(lit) ==
    CASE lit = "0" -> 0 [] lit = "3" -> 3 [] lit = "5" -> 5 [] lit = "7" -> 7

Itoa(n) == ToString(n)

RECURSIVE Marshal(_, _, _)
Marshal(v, t, fmt) ==
    CASE t.kind = "int" -> Scalar(Itoa(v))
      [] t.kind = "struct" ->
            MapNode([i \in 1..NumField(t) |->
                   [key |-> KeyOf(Fields(t.name)[i].name, fmt),
                    node |-> Marshal(v[i], Fields(t.name)[i].typ, fmt)]])
      [] t.kind = "ptr" ->
            IF v = <<>> THEN Null ELSE Marshal(v[1], ElemType(t), fmt)
      [] OTHER ->
            SeqNode([j \in 1..Len(v) |-> Marshal(v[j], ElemType(t), fmt)])

\* the last item of a mapping whose key names the field, 0 if there is none
ItemFor(items, name, fmt) ==
    LET ms == {i \in 1..Len(items) : KeyMatches(items[i].key, name, fmt)}
    IN  IF ms = {} THEN 0 ELSE CHOOSE m \in ms : \A x \in ms : x <= m

RECURSIVE decodeNode(_, _, _, _)
decodeNode(n, v, t, fmt) ==
    CASE t.kind = "int" ->
            IF n.k = "scalar" /\ IsDecimal(n.lit)
            THEN [err |-> FALSE, val |-> Atoi(n.lit)]
            ELSE IF n.k = "null"
            THEN [err |-> FALSE, val |-> IF fmt = "yaml" THEN 0 ELSE v]
            ELSE [err |-> TRUE, val |-> v]
      [] t.kind = "struct" ->
            IF n.k = "map"
            THEN LET r == [i \in 1..NumField(t) |->
                            LET m == ItemFor(n.items, Fields(t.name)[i].name, fmt)
                            IN  IF m = 0 THEN [err |-> FALSE, val |-> v[i]]
                                ELSE decodeNode(n.items[m].node, v[i],
                                                Fields(t.name)[i].typ, fmt)]
                 IN  [err |-> \E i \in 1..NumField(t) : r[i].err,
                      val |-> [i \in 1..NumField(t) |-> r[i].val]]
            ELSE [err |-> TRUE, val |-> v]
      [] t.kind = "ptr" ->
            IF n.k = "null" THEN [err |-> FALSE, val |-> <<>>]
            ELSE LET r == decodeNode(n, IF v = <<>> THEN Zero(ElemType(t))
                                        ELSE v[1], ElemType(t), fmt)
                 IN  [err |-> r.err, val |-> <<r.val>>]
      [] OTHER ->
            IF n.k = "seq"
            THEN LET r == [j \in 1..Len(n.items) |->
                            decodeNode(n.items[j], Zero(ElemType(t)),
                                       ElemType(t), fmt)]
                 IN  [err |-> \E j \in 1..Len(n.items) : r[j].err,
                      val |-> [j \in 1..Len(n.items) |-> r[j].val]]
            ELSE IF n.k = "null" THEN [err |-> FALSE, val |-> <<>>]
            ELSE [err |-> TRUE, val |-> v]

\* yaml.Unmarshal([]byte(value), field.Addr().Interface()) of a tag's or a
\* variable's literal: the literals of the model are plain scalars
Unmarshal(lit, v, t) == decodeNode(Scalar(lit), v, t, "yaml")

(***************************************************************************)
(* The process environment.  env records the variables read so far; a      *)
(* variable read for the first time holds "" (unset) or one of the values  *)
(* EnvChoices allows for it, and keeps that value for the rest of the run. *)
(***************************************************************************)
EnvChoices(name) ==
    CASE name = "CONFIGOR_ENV_PREFIX" -> {"-", "app"}
      [] name = "CONFIGOR_ENV" -> {"production", "example"}
      [] name = "CONFIGOR_PORT" -> {"0", "7", "x"}
      [] name = "CONFIGOR_NAME" -> {"7"}
      [] name = "BOTH" -> {"3"}
      [] name = "CONFIGOR_DB_PORT" -> {"0"}
      [] name = "CONFIGOR_DB_MID_AFTER" -> {"7"}
      [] name = "CONFIGOR_SERVERS_0_PORT" -> {"7"}
      [] name = "CONFIGOR_SERVERS_1_PORT" -> {"3"}
      [] name = "CONFIGOR_OPT" -> {"x"}
      [] name = "APP_SERVERS_0_PORT" -> {"7"}
      [] name = "PORT" -> {"7"}
      [] OTHER -> {}

\* CONFIGOR_ENV may be set also where the field variables are not
IsControl(name) == name = "CONFIGOR_ENV"

NumSet == Cardinality({e \in env : e.value # ""})

\* the values os.Getenv(name) can return in the current state
Getenv(name) ==
    IF \E e \in env : e.name = name
    THEN {e.value : e \in {x \in env : x.name = name}}
    ELSE {""} \cup (IF (envOpen \/ IsControl(name)) /\ NumSet < MaxEnvSet
                    THEN EnvChoices(name) ELSE {})

(***************************************************************************)
(* Errors.  An error records the activations that were running when it was *)
(* raised: every caller returns it unchanged (lines 170-171 and 179-180),  *)
(* so the stack is left as it stood.                                       *)
(***************************************************************************)
NoErr == [kind |-> "none", name |-> "", at |-> <<>>]

Error(kind, name) == [kind |-> kind, name |-> name, at |-> stack]

\* a variant that goes on after a blank required field (errors collected)
haltsExceptRequired(e) == e.kind \notin {"none", "required"}

\* `return err`: the call ends at the first error
halts(e) == e.kind # "none"

(***************************************************************************)
(* processTags: one activation per call.                                   *)
(*   path   where the record passed as `config` lives in cfg               *)
(*   typ    the type behind the `config` pointer                           *)
(*   prefix the variadic `prefix` slice; segs0 its segments at entry       *)
(*   i      the field index (from 1); j the element index (from 0)         *)
(*   fpath, ftyp  the sequence being walked, after pointer indirection     *)
(***************************************************************************)
Frame(path, typ, prefix, h) ==
    [path |-> path, typ |-> typ, prefix |-> prefix,
     segs0 |-> SliceElems(h, prefix), i |-> 0, pc |-> "enter", j |-> 0,
     fpath |-> <<>>, ftyp |-> IntT]

Top == stack[Len(stack)]

SetTop(f) == [stack EXCEPT ![Len(stack)] = f]

FieldOf(f) == Fields(f.typ.name)[f.i]

FieldPath(f) == Append(f.path, f.i)

\* getPrefix: CONFIGOR_ENV_PREFIX, or "configor"
getPrefix(v) == IF v # "" THEN v ELSE "configor"

\* Load, lines 120-124: processTags(config) or processTags(config, prefix)
CallProcessTags ==
    /\ phase = "prefix"
    /\ \E v \in Getenv("CONFIGOR_ENV_PREFIX") :
          LET prefix == getPrefix(v)
              h == IF prefix = "-" THEN <<>> ELSE << <<prefix>> >>
              s == IF prefix = "-" THEN NilSlice
                   ELSE [arr |-> 1, len |-> 1, cap |-> 1]
          IN  /\ env' = env \cup {[name |-> "CONFIGOR_ENV_PREFIX", value |-> v]}
              /\ heap' = h
              /\ stack' = << Frame(<<>>, StructT("Config"), s, h) >>
    /\ cfg0' = cfg
    /\ phase' = "bind"
    /\ UNCHANGED <<cfg, obj, envOpen, lookups, err, loaderVars>>

\* lines 128-134: the value behind the pointer must be a record
Enter ==
    /\ phase = "bind"
    /\ Top.pc = "enter"
    /\ LET e == IF Top.typ.kind # "struct" THEN Error("invalid", "")
                ELSE NoErr
       IN  /\ err' = e
           /\ phase' = IF halts(e) THEN "failed" ELSE "bind"
           /\ stack' = IF halts(e) THEN stack
                       ELSE SetTop([Top EXCEPT !.i = 1, !.pc = "env"])
    /\ UNCHANGED <<cfg, cfg0, obj, heap, env, envOpen, lookups, loaderVars>>

\* lines 139-150: read configuration from shell env
ReadEnv ==
    /\ phase = "bind"
    /\ Top.pc = "env"
    /\ Top.i <= NumField(Top.typ)
    /\ LET f == Top
           fd == FieldOf(f)
           fp == FieldPath(f)
           a == GoAppend(heap, f.prefix, <<fd.name>>)
           envName == IF fd.env # "" THEN fd.env
                      ELSE UpperJoin(SliceElems(a.heap, a.slice))
           \* the array append wrote to: the prefix's own, or a fresh one
           \* that nothing refers to once the name is built
           h1 == IF fd.env = "" /\ a.slice.arr = f.prefix.arr THEN a.heap
                 ELSE heap
       IN  \E value \in (IF envName # "" THEN Getenv(envName) ELSE {""}) :
              LET r == IF value # ""
                       THEN Unmarshal(value, Get(cfg, fp), fd.typ)
                       ELSE [err |-> FALSE, val |-> Get(cfg, fp)]
                  e == IF r.err THEN Error("decode", fd.name) ELSE NoErr
              IN  /\ heap' = h1
                  /\ env' = IF envName # ""
                            THEN env \cup {[name |-> envName, value |-> value]}
                            ELSE env
                  /\ lookups' = lookups \cup
                        {[path |-> fp, name |-> envName, value |-> value]}
                  /\ cfg' = Put(cfg, fp, r.val)
                  /\ err' = IF e = NoErr THEN err ELSE e
                  /\ phase' = IF halts(e) THEN "failed" ELSE "bind"
                  /\ stack' = IF halts(e) THEN stack
                              ELSE SetTop([f EXCEPT !.pc = "blank"])
    /\ UNCHANGED <<cfg0, obj, envOpen, loaderVars>>

\* a variant that checks `required` before it looks for a default
requiredBeforeDefault(fd, v) ==
    IF isBlank(v, fd.typ)
    THEN IF fd.required = "true" THEN [val |-> v, err |-> "required"]
         ELSE IF fd.default # ""
         THEN LET r == Unmarshal(fd.default, v, fd.typ)
              IN  [val |-> r.val, err |-> IF r.err THEN "decode" ELSE "none"]
         ELSE [val |-> v, err |-> "none"]
    ELSE [val |-> v, err |-> "none"]

\* lines 152-162: the field's value and the error, for a field holding v
defaultOrRequired(fd, v) ==
    IF isBlank(v, fd.typ)
    THEN IF fd.default # ""
         THEN LET r == Unmarshal(fd.default, v, fd.typ)
              IN  [val |-> r.val, err |-> IF r.err THEN "decode" ELSE "none"]
         ELSE IF fd.required = "true" THEN [val |-> v, err |-> "required"]
         ELSE [val |-> v, err |-> "none"]
    ELSE [val |-> v, err |-> "none"]

\* lines 152-162: set default configuration if is blank, or fail if required
ApplyDefault ==
    /\ phase = "bind"
    /\ Top.pc = "blank"
    /\ LET f == Top
           fd == FieldOf(f)
           fp == FieldPath(f)
           r == defaultOrRequired(fd, Get(cfg, fp))
           e == IF r.err = "none" THEN NoErr ELSE Error(r.err, fd.name)
       IN  /\ cfg' = Put(cfg, fp, r.val)
           /\ err' = IF e = NoErr THEN err ELSE e
           /\ phase' = IF halts(e) THEN "failed" ELSE "bind"
           /\ stack' = IF halts(e) THEN stack
                       ELSE SetTop([f EXCEPT !.pc = "recurse"])
    /\ UNCHANGED <<cfg0, obj, heap, env, envOpen, lookups, loaderVars>>

\* lines 164-166: for field.Kind() == reflect.Ptr { field = field.Elem() };
\* the Elem of a nil pointer is the invalid Value
RECURSIVE Deref(_, _, _)
Deref(v, t, p) ==
    IF t.kind # "ptr" THEN [kind |-> t.kind, typ |-> t, path |-> p]
    ELSE IF v = <<>> THEN [kind |-> "invalid", typ |-> t, path |-> p]
    ELSE Deref(v[1], ElemType(t), Append(p, 1))

\* reflect.Indirect(v).Kind(): one pointer is followed, no more
IndirectKind(v, t) ==
    IF t.kind # "ptr" THEN t.kind
    ELSE IF v = <<>> THEN "invalid"
    ELSE ElemType(t).kind

\* a variant that keeps the extended slice: prefix = append(prefix, ...)
callerPrefixAssigned(prefix, extended) == extended

\* lines 169 and 178: append's result is passed on, `prefix` is not assigned
callerPrefix(prefix, extended) == prefix

\* lines 164-175: recurse into a nested record, or start on a sequence
Descend ==
    /\ phase = "bind"
    /\ Top.pc = "recurse"
    /\ LET f == Top
           fd == FieldOf(f)
           fp == FieldPath(f)
           tgt == Deref(Get(cfg, fp), fd.typ, fp)
           a == GoAppend(heap, f.prefix, <<fd.name>>)
       IN  IF tgt.kind = "struct"
           THEN /\ heap' = a.heap
                /\ stack' = Append(
                      SetTop([f EXCEPT !.pc = "instruct",
                                       !.prefix = callerPrefix(@, a.slice)]),
                      Frame(tgt.path, tgt.typ, a.slice, a.heap))
           ELSE IF tgt.kind \in {"slice", "ptrslice"}
           THEN /\ heap' = heap
                /\ stack' = SetTop([f EXCEPT !.pc = "elems", !.j = 0,
                                             !.fpath = tgt.path,
                                             !.ftyp = tgt.typ])
           ELSE /\ heap' = heap
                /\ stack' = SetTop([f EXCEPT !.pc = "env", !.i = @ + 1])
    /\ UNCHANGED <<phase, cfg, cfg0, obj, env, envOpen, lookups, err, loaderVars>>

\* a variant that leaves the element's index out of the prefix
elemSegmentsNoIndex(name, j) == <<name>>

\* line 178: fieldStruct.Name, fmt.Sprintf("%d", i)
elemSegments(name, j) == <<name, Sprintf(j)>>

\* lines 176-182: the elements of a sequence, in index order
Element ==
    /\ phase = "bind"
    /\ Top.pc = "elems"
    /\ LET f == Top
           fd == FieldOf(f)
           length == Len(Get(cfg, f.fpath))
           ep == Append(f.fpath, f.j + 1)
           et == ElemType(f.ftyp)
           a == GoAppend(heap, f.prefix, elemSegments(fd.name, f.j))
       IN  IF f.j >= length
           THEN /\ heap' = heap
                /\ stack' = SetTop([f EXCEPT !.pc = "env", !.i = @ + 1])
           ELSE IF IndirectKind(Get(cfg, ep), et) = "struct"
           THEN /\ heap' = a.heap
                /\ stack' = Append(
                      SetTop([f EXCEPT !.pc = "inelem",
                                       !.prefix = callerPrefix(@, a.slice)]),
                      Frame(ep, et, a.slice, a.heap))
           ELSE /\ heap' = heap
                /\ stack' = SetTop([f EXCEPT !.j = @ + 1])
    /\ UNCHANGED <<phase, cfg, cfg0, obj, env, envOpen, lookups, err, loaderVars>>

MaxArr(st) ==
    LET ids == {st[k].prefix.arr : k \in 1..Len(st)} \cup {0}
    IN  CHOOSE m \in ids : \A x \in ids : x <= m

\* line 185: return nil; the caller goes on after the call
Return ==
    /\ phase = "bind"
    /\ Top.pc = "env"
    /\ Top.i > NumField(Top.typ)
    /\ LET rest == SubSeq(stack, 1, Len(stack) - 1)
           p == rest[Len(rest)]
           st == IF rest = <<>> THEN rest
                 ELSE IF p.pc = "instruct"
                 THEN [rest EXCEPT ![Len(rest)] =
                          [p EXCEPT !.pc = "env", !.i = @ + 1]]
                 ELSE [rest EXCEPT ![Len(rest)] =
                          [p EXCEPT !.pc = "elems", !.j = @ + 1]]
       IN  /\ stack' = st
           /\ heap' = SubSeq(heap, 1, MaxArr(st))
           /\ phase' = IF st = <<>> THEN "ok" ELSE "bind"
    /\ UNCHANGED <<cfg, cfg0, obj, env, envOpen, lookups, err, loaderVars>>

processTags == Enter \/ ReadEnv \/ ApplyDefault \/ Descend \/ Element \/ Return

(***************************************************************************)
(* Files.  A path is the sequence of its dot-separated parts ("a.yml" is   *)
(* <<"a", "yml">>); a regular file is a record of its path, the format its *)
(* bytes are written in and the document they hold.                        *)
(***************************************************************************)
\* path.Ext(file) without the dot: "" for a name without a dot
Ext(file) == IF Len(file) <= 1 THEN "" ELSE file[Len(file)]

PathString(file) == Join(file, ".")

\* os.Stat(file) succeeds and the mode is regular
IsRegular(fsys, file) == \E f \in fsys : f.path = file

FileAt(fsys, file) == CHOOSE f \in fsys : f.path = file

\* getConfigurationWithENV, lines 32-39: the name with .<env> before the
\* extension, or at the end when there is no extension
envFile(file, e) ==
    IF Ext(file) = "" THEN Append(file, e)
    ELSE SubSeq(file, 1, Len(file) - 1) \o <<e, file[Len(file)]>>

\* ENV, lines 20-29
ENV(v, isTest) ==
    IF v # "" THEN v ELSE IF isTest THEN "test" ELSE "development"

\* a variant that passes over a reference without any file
resolveSkipMissing(file, e, fsys) ==
    LET base == IF IsRegular(fsys, file) THEN <<file>> ELSE <<>>
        withEnv == IF IsRegular(fsys, envFile(file, e))
                   THEN <<envFile(file, e)>> ELSE <<>>
    IN  IF base \o withEnv # <<>>
        THEN [found |-> TRUE, files |-> base \o withEnv]
        ELSE IF IsRegular(fsys, envFile(file, "example"))
        THEN [found |-> TRUE, files |-> <<envFile(file, "example")>>]
        ELSE [found |-> TRUE, files |-> <<>>]

\* a variant that lists the environment file before the base file
resolveEnvFirst(file, e, fsys) ==
    LET base == IF IsRegular(fsys, file) THEN <<file>> ELSE <<>>
        withEnv == IF IsRegular(fsys, envFile(file, e))
                   THEN <<envFile(file, e)>> ELSE <<>>
    IN  IF base \o withEnv # <<>>
        THEN [found |-> TRUE, files |-> withEnv \o base]
        ELSE IF IsRegular(fsys, envFile(file, "example"))
        THEN [found |-> TRUE, files |-> <<envFile(file, "example")>>]
        ELSE [found |-> FALSE, files |-> <<>>]

\* getConfigurations, lines 51-74: one turn of the loop, for files[i]
resolveOne(file, e, fsys) ==
    LET base == IF IsRegular(fsys, file) THEN <<file>> ELSE <<>>
        withEnv == IF IsRegular(fsys, envFile(file, e))
                   THEN <<envFile(file, e)>> ELSE <<>>
    IN  IF base \o withEnv # <<>>
        THEN [found |-> TRUE, files |-> base \o withEnv]
        ELSE IF IsRegular(fsys, envFile(file, "example"))
        THEN [found |-> TRUE, files |-> <<envFile(file, "example")>>]
        ELSE [found |-> FALSE, files |-> <<>>]

\* whether a decoder parses bytes written in a format (JSON text is YAML)
Parses(decoder, format) ==
    decoder = format \/ (decoder = "yaml" /\ format = "json")

decodeFile(decoder, f, v) ==
    IF Parses(decoder, f.format) THEN decodeNode(f.doc, v, StructT("Config"), decoder)
    ELSE [err |-> TRUE, val |-> v]

\* load, lines 188-211: the decoder the extension names, or toml, json,
\* yaml in turn
load(v, f) ==
    CASE Ext(f.path) \in {"yaml", "yml"} -> decodeFile("yaml", f, v)
      [] Ext(f.path) = "toml" -> decodeFile("toml", f, v)
      [] Ext(f.path) = "json" -> decodeFile("json", f, v)
      [] OTHER ->
            LET t == decodeFile("toml", f, v)
                j == decodeFile("json", f, t.val)
                y == decodeFile("yaml", f, j.val)
            IN  IF ~t.err THEN t ELSE IF ~j.err THEN j ELSE y

\* Save, lines 91-98: the encoder the file name selects, "" for none
saveFormat(file) ==
    CASE Ext(file) \in {"yaml", "yml"} -> "yaml"
      [] Ext(file) = "json" -> "json"
      [] OTHER -> ""

\* Save(config, filename), filename being refs[1].  Marshal does not fail
\* on a Config (lines 100-102 are not reached); the file is writable.
Save ==
    /\ phase = "save"
    /\ LET filename == refs[1]
           fmt == saveFormat(filename)
       IN  IF fmt = ""
           THEN /\ err' = Error("filetype", PathString(filename))
                /\ phase' = "failed"
                /\ fs' = fs
           ELSE /\ fs' = {f \in fs : f.path # filename} \cup
                         {[path |-> filename, format |-> fmt,
                           doc |-> Marshal(obj, StructT("Config"), fmt)]}
                /\ phase' = "load"
                /\ err' = err
    /\ UNCHANGED <<cfg, cfg0, obj, stack, heap, env, envOpen, lookups, refs,
                   ri, results, mi, mergedLog, envname>>

\* Load line 110, getConfigurations lines 48-50: env := ENV()
getConfigurations ==
    /\ phase = "load"
    /\ \E v \in Getenv("CONFIGOR_ENV"), isTest \in BOOLEAN :
          /\ envname' = ENV(v, isTest)
          /\ env' = env \cup {[name |-> "CONFIGOR_ENV", value |-> v]}
    /\ results' = <<>>
    /\ ri' = Len(refs)
    /\ phase' = "resolve"
    /\ UNCHANGED <<cfg, cfg0, obj, stack, heap, envOpen, lookups, err, refs,
                   fs, mi, mergedLog>>

\* getConfigurations lines 50-75: files[i], from the last to the first
Resolve ==
    /\ phase = "resolve"
    /\ ri >= 1
    /\ LET r == resolveOne(refs[ri], envname, fs)
       IN  IF r.found
           THEN /\ results' = results \o r.files
                /\ ri' = ri - 1
                /\ UNCHANGED <<err, phase>>
           ELSE /\ results' = <<>>
                /\ ri' = ri
                /\ err' = Error("notfound", PathString(refs[ri]))
                /\ phase' = "failed"
    /\ UNCHANGED <<cfg, cfg0, obj, stack, heap, env, envOpen, lookups, refs,
                   fs, mi, mergedLog, envname>>

\* getConfigurations line 76, Load lines 110-114
ResolveReturn ==
    /\ phase = "resolve"
    /\ ri = 0
    /\ mi' = 1
    /\ phase' = IF results = <<>> THEN "prefix" ELSE "merge"
    /\ UNCHANGED <<cfg, cfg0, obj, stack, heap, env, envOpen, lookups, err,
                   refs, fs, ri, results, mergedLog, envname>>

\* Load lines 114-118: load(config, file) for the next resolved file
Merge ==
    /\ phase = "merge"
    /\ mi <= Len(results)
    /\ LET r == load(cfg, FileAt(fs, results[mi]))
           e == IF r.err THEN Error("decode", PathString(results[mi]))
                ELSE NoErr
       IN  /\ cfg' = r.val
           /\ mergedLog' = Append(mergedLog, results[mi])
           /\ err' = IF e = NoErr THEN err ELSE e
           /\ phase' = IF halts(e) THEN "failed"
                       ELSE IF mi = Len(results) THEN "prefix" ELSE "merge"
           /\ mi' = IF halts(e) THEN mi ELSE mi + 1
    /\ UNCHANGED <<cfg0, obj, stack, heap, env, envOpen, lookups, refs, fs,
                   ri, results, envname>>

(***************************************************************************)
(* The objects a merge of files can leave behind for processTags.          *)
(***************************************************************************)
ConfigT == StructT("Config")

SeqsUpTo(S, n) == UNION {[1..k -> S] : k \in 0..n}

ServerVals == {<<3, 0>>, <<3, 3>>, <<0, 0>>}

DBVals == {Zero(StructT("DB")), <<3, <<<<0>>, 0>>>>, <<0, <<<<0>>, 3>>>>}

SomeDB == <<3, <<<<0>>, 0>>>>

SomeServer == <<3, 0>>

\* Config{Port, Name, Both, DB, Servers, Ptrs, Opt}
MergedConfigs ==
    {<<port, 3, 0, db, <<>>, <<>>, <<>>>> : port \in {0, 3}, db \in DBVals}
    \cup {<<0, 3, 0, SomeDB, servers, <<>>, <<SomeServer>>>> :
             servers \in SeqsUpTo(ServerVals, MaxLen)}
    \cup {<<0, 3, 0, SomeDB, <<>>, ptrs, opt>> :
             ptrs \in {<<>>, << <<>> >>, << <<SomeServer>> >>},
             opt \in {<<>>, <<SomeServer>>}}
    \cup {<<port, 0, 0, SomeDB, <<SomeServer>>, <<>>, <<>>>> : port \in {0, 3}}

\* processTags called on an object that the file merges have filled
Init ==
    /\ phase = "prefix"
    /\ cfg \in MergedConfigs
    /\ cfg0 = cfg
    /\ obj = cfg
    /\ stack = <<>>
    /\ heap = <<>>
    /\ env = {}
    /\ envOpen = TRUE
    /\ lookups = {}
    /\ err = NoErr
    /\ refs = <<>>
    /\ fs = {}
    /\ ri = 0
    /\ results = <<>>
    /\ mi = 0
    /\ mergedLog = <<>>
    /\ envname = ""

Next == CallProcessTags \/ processTags

Spec == Init /\ [][Next]_vars

(***************************************************************************)
(* Load(config, files...) over a disk that holds some of these files.      *)
(***************************************************************************)
MaxRefs == 2       \* most base file references passed to Load

KV(key, node) == [key |-> key, node |-> node]

Disk ==
    { [path |-> <<"a", "yml">>, format |-> "yaml",
       doc |-> MapNode(<<KV("port", Scalar("3")), KV("name", Scalar("3")),
                         KV("db", MapNode(<<KV("port", Scalar("3"))>>))>>)],
      [path |-> <<"a", "development", "yml">>, format |-> "yaml",
       doc |-> MapNode(<<KV("port", Scalar("7"))>>)],
      [path |-> <<"a", "example", "yml">>, format |-> "yaml",
       doc |-> MapNode(<<KV("name", Scalar("7")),
                         KV("db", MapNode(<<KV("port", Scalar("3"))>>))>>)],
      [path |-> <<"c">>, format |-> "toml",
       doc |-> MapNode(<<KV("Port", Scalar("5")), KV("Name", Scalar("3")),
                         KV("DB", MapNode(<<KV("Port", Scalar("3"))>>))>>)],
      [path |-> <<"c", "production">>, format |-> "garbage", doc |-> Null],
      [path |-> <<"c", "example">>, format |-> "json",
       doc |-> MapNode(<<KV("Port", Scalar("5")),
                         KV("servers", SeqNode(<<MapNode(
                              <<KV("Host", Scalar("3"))>>)>>))>>)] }

RefUniverse == {<<"a", "yml">>, <<"c">>}

\* Load is called with an empty or a partly filled object
InitLoad ==
    /\ phase = "load"
    /\ obj \in {Zero(ConfigT), <<0, 7, 0, Zero(StructT("DB")), <<>>, <<>>, <<>>>>}
    /\ cfg = obj
    /\ cfg0 = obj
    /\ stack = <<>>
    /\ heap = <<>>
    /\ env = {}
    /\ envOpen = FALSE
    /\ lookups = {}
    /\ err = NoErr
    /\ refs \in SeqsUpTo(RefUniverse, MaxRefs)
    /\ fs \in SUBSET Disk
    /\ ri = 0
    /\ results = <<>>
    /\ mi = 0
    /\ mergedLog = <<>>
    /\ envname = ""

Load == getConfigurations \/ Resolve \/ ResolveReturn \/ Merge
            \/ CallProcessTags \/ processTags

NextLoad == Load

SpecLoad == InitLoad /\ [][NextLoad]_vars

(***************************************************************************)
(* Save(obj, file) and then Load(fresh object, file), on an empty disk and *)
(* with no field variable set in the environment.                          *)
(***************************************************************************)
RoundTripObjs ==
    {<<port, 3, both, SomeDB, servers, <<>>, opt>> :
        port \in {0, 3}, both \in {0, 3},
        servers \in SeqsUpTo({<<3, 3>>, <<3, 0>>}, 1),
        opt \in {<<>>, <<<<3, 3>>>>}}

InitRoundTrip ==
    /\ phase = "save"
    /\ obj \in RoundTripObjs
    /\ cfg = Zero(ConfigT)
    /\ cfg0 = cfg
    /\ stack = <<>>
    /\ heap = <<>>
    /\ env = {}
    /\ envOpen = FALSE
    /\ lookups = {}
    /\ err = NoErr
    /\ refs \in {<< <<"out", "yaml">> >>, << <<"out", "json">> >>,
                 << <<"out", "txt">> >>}
    /\ fs = {}
    /\ ri = 0
    /\ results = <<>>
    /\ mi = 0
    /\ mergedLog = <<>>
    /\ envname = ""

NextRoundTrip == Save \/ Load

SpecRoundTrip == InitRoundTrip /\ [][NextRoundTrip]_vars

(***************************************************************************)
(* Reading the object by path, for the properties below.                   *)
(***************************************************************************)
RECURSIVE TypeAt(_, _)
TypeAt(t, p) ==
    IF p = <<>> THEN t
    ELSE IF t.kind = "struct"
    THEN TypeAt(Fields(t.name)[Head(p)].typ, Tail(p))
    ELSE TypeAt(ElemType(t), Tail(p))

\* the descriptor of the field a path ends in
DescAt(p) ==
    Fields(TypeAt(ConfigT, SubSeq(p, 1, Len(p) - 1)).name)[p[Len(p)]]

\* the name segments along a path: field names and element indices
RECURSIVE PathSegs(_, _)
PathSegs(t, p) ==
    IF p = <<>> THEN <<>>
    ELSE IF t.kind = "struct"
    THEN <<Fields(t.name)[Head(p)].name>>
            \o PathSegs(Fields(t.name)[Head(p)].typ, Tail(p))
    ELSE IF t.kind = "ptr" THEN PathSegs(ElemType(t), Tail(p))
    ELSE <<ToString(Head(p) - 1)>> \o PathSegs(ElemType(t), Tail(p))

\* the segments processTags was first called with
InitialSegs ==
    LET v == CHOOSE x \in {e.value : e \in {y \in env :
                              y.name = "CONFIGOR_ENV_PREFIX"}} : TRUE
    IN  IF v = "-" THEN <<>> ELSE IF v = "" THEN <<"configor">> ELSE <<v>>

RECURSIVE UpperName(_)
UpperName(segs) ==
    IF segs = <<>> THEN ""
    ELSE IF Len(segs) = 1 THEN ToUpper(segs[1])
    ELSE ToUpper(segs[1]) \o "_" \o UpperName(Tail(segs))

IsPrefixOf(p, q) == Len(p) <= Len(q) /\ SubSeq(q, 1, Len(p)) = p

\* the activation that raised the error, and its field
ErrFrame == err.at[Len(err.at)]

\* the paths that come after the place of the error: later fields of every
\* running activation, later elements of every sequence being walked
LaterRoots ==
    UNION {
        {Append(err.at[k].path, i2) :
            i2 \in (err.at[k].i + 1)..NumField(err.at[k].typ)}
        \cup (IF err.at[k].pc = "inelem"
              THEN {Append(err.at[k].fpath, j2) :
                      j2 \in (err.at[k].j + 2)..Len(Get(cfg0, err.at[k].fpath))}
              ELSE {})
        : k \in 1..Len(err.at)}

(***************************************************************************)
(* C1: a field with a default whose variable holds a value that decodes    *)
(* holds the decoded override, never the default, once processTags has     *)
(* returned without error.                                                 *)
(***************************************************************************)
C1_OverrideBeatsDefault ==
    phase = "ok" =>
        \A l \in lookups :
            (/\ DescAt(l.path).default # ""
             /\ DescAt(l.path).typ.kind = "int"
             /\ l.value # ""
             /\ IsDecimal(l.value))
            => Get(cfg, l.path) = Atoi(l.value)

(***************************************************************************)
(* C2: a blank required field without a default ends the call with the     *)
(* "is required, but blank" error naming it, and nothing that comes later  *)
(* (later fields of the same record, records not yet visited) is read from *)
(* the environment or modified.                                            *)
(***************************************************************************)
C2_FailFast ==
    /\ err.kind = "required" =>
          /\ phase = "failed"
          /\ err.name = FieldOf(ErrFrame).name
          /\ FieldOf(ErrFrame).required = "true"
          /\ FieldOf(ErrFrame).default = ""
          /\ isBlank(Get(cfg, FieldPath(ErrFrame)), FieldOf(ErrFrame).typ)
          /\ \A q \in LaterRoots :
                /\ Get(cfg, q) = Get(cfg0, q)
                /\ \A l \in lookups : ~IsPrefixOf(q, l.path)
    \* and the call does not get past such a field
    /\ (phase = "bind" /\ Top.pc = "recurse"
          /\ FieldOf(Top).required = "true" /\ FieldOf(Top).default = "")
        => ~isBlank(Get(cfg, FieldPath(Top)), FieldOf(Top).typ)

\* the error is raised in an element of Servers while its own Port and
\* the later field Opt still wait for their defaults
C2_Witness ==
    /\ err.kind = "required"
    /\ err.name = "Host"
    /\ Len(err.at) = 2
    /\ Get(cfg, <<5, 1, 2>>) = 0
    /\ cfg[7] # <<>>
    /\ Get(cfg, <<7, 1, 2>>) = 0

(***************************************************************************)
(* C5: the variable read for a field without an `env` tag is the           *)
(* upper-cased "_"-join of the initial prefix, the enclosing field names,  *)
(* the decimal indices of the enclosing elements and the field's name;     *)
(* Servers[0].Port is read from <PREFIX>_SERVERS_0_PORT; and a field's     *)
(* value comes from its own file value, its own variable and its own       *)
(* default only, so one element's variable never reaches another element.  *)
(***************************************************************************)
C5_EnvNameDerivation ==
    /\ \A l \in lookups :
          /\ DescAt(l.path).env = "" =>
                l.name = UpperName(InitialSegs \o PathSegs(ConfigT, l.path))
          /\ (l.path = <<5, 1, 2>> /\ InitialSegs = <<"configor">>)
                => l.name = "CONFIGOR_SERVERS_0_PORT"
          /\ (l.path = <<5, 2, 2>> /\ InitialSegs = <<"app">>)
                => l.name = "APP_SERVERS_1_PORT"
    /\ \A j \in 1..Len(cfg[5]) :
          LET q == <<5, j, 2>>
              own == {l \in lookups : l.path = q}
          IN  IF own = {} THEN Get(cfg, q) = Get(cfg0, q)
              ELSE \A l \in own :
                      LET a == IF l.value # "" /\ IsDecimal(l.value)
                               THEN Atoi(l.value) ELSE Get(cfg0, q)
                      IN  Get(cfg, q) \in {a} \cup (IF a = 0 THEN {5} ELSE {})

\* element 0 took its override, element 1 its default
C5_Witness ==
    /\ phase = "ok"
    /\ Len(cfg[5]) = 2
    /\ [path |-> <<5, 1, 2>>, name |-> "CONFIGOR_SERVERS_0_PORT",
        value |-> "7"] \in lookups
    /\ Get(cfg0, <<5, 1, 2>>) = 0
    /\ Get(cfg, <<5, 1, 2>>) = 7
    /\ Get(cfg, <<5, 2, 2>>) = 5

(***************************************************************************)
(* C6: the "is required, but blank" error is never raised for a field that *)
(* declares a default literal: the required check is reached only for a    *)
(* blank field without a default.                                          *)
(***************************************************************************)
C6_DefaultWins ==
    err.kind = "required" =>
        /\ FieldOf(ErrFrame).default = ""
        /\ err.name # "Both"

\* Both (default and required) was blank after the override step and
\* received its default
C6_Witness ==
    /\ phase = "ok"
    /\ [path |-> <<3>>, name |-> "BOTH", value |-> ""] \in lookups
    /\ cfg0[3] = 0
    /\ cfg[3] = 7

(***************************************************************************)
(* C8: an element of a sequence that is a record after pointer indirection *)
(* (a record, or a non-nil pointer to one) is recursed into; the call does *)
(* not fail because of the element's shape.                                *)
(***************************************************************************)
C8_PointerElements ==
    ~(/\ err.kind = "invalid"
      /\ IndirectKind(Get(cfg, ErrFrame.path), ErrFrame.typ) = "struct")

(***************************************************************************)
(* C9: the prefix an activation received keeps its segments while the      *)
(* activation runs, whatever append wrote behind it, and it is the prefix  *)
(* of the activation's own path.                                           *)
(***************************************************************************)
C9_PrefixStable ==
    \A k \in 1..Len(stack) :
        /\ SliceElems(heap, stack[k].prefix) = stack[k].segs0
        /\ stack[k].segs0 = InitialSegs \o PathSegs(ConfigT, stack[k].path)

\* the activation for DB.Mid holds a prefix of three segments in an array
\* of four; the call for Inner ran on that same array ("Inner" in the
\* fourth place), and after it append wrote "After" there for the name of
\* the field After, which was read under its own name
C9_Witness ==
    /\ phase = "bind"
    /\ Len(stack) = 3
    /\ Top.path = <<4, 2>>
    /\ Top.i = 2
    /\ Top.pc = "blank"
    /\ Top.prefix.len = 3
    /\ Top.prefix.cap = 4
    /\ heap[Top.prefix.arr][4] = "After"
    /\ \E l \in lookups :
          l.path = <<4, 2, 1, 1>> /\ l.name = "CONFIGOR_DB_MID_INNER_LEAF"
    /\ [path |-> <<4, 2, 2>>, name |-> "CONFIGOR_DB_MID_AFTER",
        value |-> "7"] \in lookups
    /\ Get(cfg, <<4, 2, 2>>) = 7

(***************************************************************************)
(* C10: when processTags returns without error, every visited field that   *)
(* is required and has no default holds a non-zero value.                  *)
(***************************************************************************)
C10_RequiredHolds ==
    phase = "ok" =>
        \A l \in lookups :
            (DescAt(l.path).required = "true" /\ DescAt(l.path).default = "")
            => ~isBlank(Get(cfg, l.path), DescAt(l.path).typ)

(***************************************************************************)
(* Reading the resolver's inputs, for the properties below.                *)
(***************************************************************************)
HasVariant(file) ==
    \/ IsRegular(fs, file)
    \/ IsRegular(fs, envFile(file, envname))
    \/ IsRegular(fs, envFile(file, "example"))

\* the block of a reference: base file, then environment file, each if it
\* exists; the example file alone when neither does
Block(file) ==
    LET b == IF IsRegular(fs, file) THEN <<file>> ELSE <<>>
        e == IF IsRegular(fs, envFile(file, envname))
             THEN <<envFile(file, envname)>> ELSE <<>>
    IN  IF b \o e # <<>> THEN b \o e ELSE <<envFile(file, "example")>>

\* the blocks of refs[hi], refs[hi-1], ..., refs[lo]
RECURSIVE Blocks(_, _)
Blocks(hi, lo) ==
    IF hi < lo THEN <<>> ELSE Block(refs[hi]) \o Blocks(hi - 1, lo)

\* the files merged into an object one after the other
RECURSIVE MergeAll(_, _)
MergeAll(v, files) ==
    IF files = <<>> THEN v
    ELSE MergeAll(load(v, FileAt(fs, Head(files))).val, Tail(files))

(***************************************************************************)
(* C3: when one of the references passed to Load has none of its three     *)
(* variants on disk, Load ends with the file-not-found error, the object   *)
(* is as the caller passed it, no file has been read and processTags has   *)
(* not run, whatever files the other references have.                      *)
(***************************************************************************)
C3_NotFoundHardStop ==
    (phase # "load" /\ \E k \in 1..Len(refs) : ~HasVariant(refs[k])) =>
        /\ phase \in {"resolve", "failed"}
        /\ phase = "resolve" => ri >= 1
        /\ phase = "failed" => (err.kind = "notfound" /\ results = <<>>)
        /\ cfg = obj
        /\ mergedLog = <<>>
        /\ lookups = {}
        /\ stack = <<>>

\* the reference resolved first has files, the next one has none
C3_Witness ==
    /\ phase = "failed"
    /\ err.kind = "notfound"
    /\ Len(refs) = 2
    /\ ri = 1
    /\ HasVariant(refs[2])
    /\ ~HasVariant(refs[1])
    /\ obj # Zero(ConfigT)

C7_RoundTrip ==
    (phase \in {"ok", "failed"} /\ saveFormat(refs[1]) # "") =>
        (phase = "ok" /\ cfg = obj)

=============================================================================
